---- MODULE Spec2Model ----
(***************************************************************************)
(* State-machine model of the build orchestration in setup.py:             *)
(*   - _compile_postgres (the embedded-engine sub-build and its stamp),    *)
(*   - build_ext.run and _check_rust (the native extension builder),       *)
(*   - _compile_parsers (the grammar compiler and its cache).              *)
(* The orchestrator is single-threaded; each sub-machine has its own       *)
(* program counter and its own specification (SpecPg, SpecExt, SpecGr).    *)
(***************************************************************************)
EXTENDS Integers, Sequences, FiniteSets, TLC

\* ------------------------------------------------------------------ bounds
\* Number of distinct upstream revisions the submodule can be checked out at.
NumRevs == 2
\* Number of build_ext invocations in one behaviour.
MaxExtRuns == 3
\* Number of _compile_parsers invocations in one behaviour.
MaxGrammarRuns == 3
MaxKeyRuns == 2
MaxCpu == 3
MaxOptCalls == 2

\* --------------------------------------------------------------- utilities
\* Python's None / a missing file, and a present value.
None == <<>>
Some(x) == <<x>>

Last(s) == s[Len(s)]

IsPrefix(s, t) == Len(s) <= Len(t) /\ SubSeq(t, 1, Len(s)) = s

NoDuplicates(s) == \A i, j \in 1..Len(s) : i # j => s[i] # s[j]

\* str.partition(sep)[0]: everything before the first separator.
RECURSIVE PartitionHead(_, _)
PartitionHead(s, sep) ==
    IF s = <<>> THEN <<>>
    ELSE IF Head(s) = sep THEN <<>>
    ELSE <<Head(s)>> \o PartitionHead(Tail(s), sep)

\* ===================================================== embedded engine build
\* First character of `git submodule status`: ' ' clean, '+' checked-out
\* commit differs from the pinned one, '-' not initialized.
StatusChars == {" ", "+", "-"}

HexDigits == <<"1", "2", "3", "4", "5", "6", "7", "8", "9">>
Revision(i) == <<"a", HexDigits[i]>>
Revisions == {Revision(i) : i \in 1..NumRevs}

\* stdout of `git submodule status postgres`, as a sequence of characters.
GitSubmoduleStatus(st, rev) == <<st>> \o rev \o <<" ">> \o <<"p", "g">>

\* revision, _, _ = proc.stdout[1:].partition(' ');
\* source_stamp = proc.stdout[0] + revision
SourceStamp(stdout) == <<stdout[1]>> \o PartitionHead(Tail(stdout), " ")

\* is_outdated = source_stamp != build_stamp   (build_stamp may be None)
\* Faulty variants: a missing stamp counts as current; the revision only is
\* compared, ignoring the status character.
IsOutdatedNoStamp(source_stamp, build_stamp) ==
    build_stamp # None /\ Some(source_stamp) # build_stamp
IsOutdatedBad(source_stamp, build_stamp) ==
    \/ build_stamp = None
    \/ build_stamp[1] = <<>>
    \/ Tail(build_stamp[1]) # Tail(source_stamp)
IsOutdated(source_stamp, build_stamp) == Some(source_stamp) # build_stamp

\* subprocess.run(..., check=True): a non-zero return code raises.
\* Faulty variant: check=False, a failing command is ignored.
CheckRaisesBad(rc) == FALSE
CheckRaises(rc) == rc # 0

\* Return codes of an external command: success, failure, killed by signal.
ReturnCodes == {0, 1, -9}

StepOrder == <<"configure", "make", "contrib_make", "install", "contrib_install">>

\* The `if` guarding each external step of the rebuild.
\* Faulty variants: the contrib steps with two different conditions; the
\* conditions without `or is_outdated`.
RunIfSplit(step, a, outdated) ==
    CASE step = "configure" -> a.run_configure \/ a.fresh_build \/ outdated
      [] step = "contrib_make" -> a.build_contrib \/ a.fresh_build \/ outdated
      [] step = "contrib_install" -> a.build_contrib
      [] OTHER -> TRUE
RunIfBad(step, a, outdated) ==
    CASE step = "configure" -> a.run_configure \/ a.fresh_build
      [] step \in {"contrib_make", "contrib_install"} ->
             a.build_contrib \/ a.fresh_build
      [] OTHER -> TRUE
RunIf(step, a, outdated) ==
    CASE step = "configure" -> a.run_configure \/ a.fresh_build \/ outdated
      [] step \in {"contrib_make", "contrib_install"} ->
             a.build_contrib \/ a.fresh_build \/ outdated
      [] OTHER -> TRUE

\* The steps an invocation with these arguments runs when nothing fails.
SelectedSteps(a, outdated) ==
    SelectSeq(StepOrder, LAMBDA s : RunIf(s, a, outdated))

Systems == {"Linux", "Darwin", "Windows"}

PgArgs == [force_build : BOOLEAN, fresh_build : BOOLEAN,
           run_configure : BOOLEAN, build_contrib : BOOLEAN]

\* build_postgres.run passes force_build=True and its three options;
\* develop.run calls _compile_postgres(build_base) with the defaults.
DefaultArgs == [force_build |-> FALSE, fresh_build |-> TRUE,
                run_configure |-> TRUE, build_contrib |-> TRUE]

VARIABLES
    pgSrc,      \* upstream submodule state: [status, revision]
    pgFs,       \* build output directory: [dir, build, stamp, configured]
    pgPc,       \* position inside _compile_postgres
    pgArgs,     \* keyword arguments of the running invocation
    pgLoc,      \* locals: [source_stamp, build_stamp, is_outdated]
    pgLog,      \* external rebuild steps run by this invocation, with rc
    pgErr,      \* what the invocation raised ("" if nothing)
    pgTouched,  \* this invocation has modified the build directory
    pgPrevFail, \* source state at which the previous invocation stopped
                \* part-way (None otherwise)
    cpu_count   \* what os.cpu_count() gives the running invocation

VARIABLES
    extPc,      \* position inside build_ext.run
    extArgs,    \* [inplace, rust_extensions] of the running invocation
    rustc,      \* what `rustc -V` gives on this host
    extEnv,     \* os.environ['CARGO_TARGET_DIR'] (None if unset)
    extIdx,     \* index of the loop the invocation is in
    copy_list,  \* (dylib_path, target_path) pairs planned by this invocation
    extFs,      \* extension artifacts on disk: path -> None or Some(file)
    extTemp,    \* directories holding toolchain intermediates
    extLog,     \* builder steps taken by this invocation
    extErr,     \* what the invocation raised (None if nothing)
    extRun      \* number of build_ext invocations so far

extVars == <<extPc, extArgs, rustc, extEnv, extIdx, copy_list, extFs, extTemp,
             extLog, extErr, extRun>>

VARIABLES
    grPc,       \* position inside _compile_parsers
    grInplace,  \* the inplace argument of the running invocation
    grIdx,      \* index of the spec the loop is at
    grFs,       \* pickle files on disk: path -> None or Some(content)
    grErr,      \* what the invocation raised ("" if nothing)
    grRun       \* number of _compile_parsers invocations so far

grVars == <<grPc, grInplace, grIdx, grFs, grErr, grRun>>

pgVars == <<pgSrc, pgFs, pgPc, pgArgs, pgLoc, pgLog, pgErr, pgTouched,
            pgPrevFail, cpu_count>>

VARIABLES
    keyRuns     \* gen_build_cache_key invocations so far: what each one
                \* found (parser_hash, submodule state) and what it printed

keyVars == <<keyRuns>>

VARIABLES
    optEnv,     \* os.environ has EDGEDB_DEBUG set
    optSelf,    \* attributes of the build_ext command object
    optCalls,   \* calls made on the object; applications of cythonize
    optErr      \* what the last call raised ("" if nothing)

optVars == <<optEnv, optSelf, optCalls, optErr>>

\* _compile_postgres touches nothing of the other two builders.
PgFrame == UNCHANGED <<extVars, grVars, keyVars, optVars>>

PgTerminal == {"idle", "done", "failed", "killed"}

NoLocals == [source_stamp |-> None, build_stamp |-> None,
             is_outdated |-> FALSE, decided |-> FALSE]

PgInit ==
    /\ pgSrc = [status |-> "-", revision |-> Revision(1)]
    /\ pgFs = [dir |-> FALSE, build |-> FALSE, stamp |-> None,
               configured |-> FALSE]
    /\ pgPc = "idle"
    /\ pgArgs = DefaultArgs
    /\ pgLoc = NoLocals
    /\ pgLog = <<>>
    /\ pgErr = ""
    /\ pgTouched = FALSE
    /\ pgPrevFail = None
    /\ cpu_count = 1

\* What the finished invocation leaves for the next one to find.
PrevFailAfter ==
    IF pgPc \in {"failed", "killed"} /\ pgTouched THEN Some(pgSrc) ELSE None

\* A call of _compile_postgres (from build_postgres.run or develop.run).
PgStart ==
    /\ pgPc \in PgTerminal
    /\ \E a \in PgArgs : pgArgs' = a
    /\ pgPc' = "submodule_check"
    /\ pgLoc' = NoLocals
    /\ pgLog' = <<>>
    /\ pgErr' = ""
    /\ pgTouched' = FALSE
    /\ pgPrevFail' = PrevFailAfter
    /\ \E n \in 1..MaxCpu : cpu_count' = n
    /\ UNCHANGED <<pgSrc, pgFs>>
    /\ PgFrame

\* The submodule is checked out, updated or de-initialized between builds,
\* after the previous build process has exited (its locals are gone).
PgChangeSource ==
    /\ pgPc \in PgTerminal
    /\ \E s \in [status : StatusChars, revision : Revisions] :
          /\ s # pgSrc
          /\ pgSrc' = s
    /\ pgPc' = "idle"
    /\ pgArgs' = DefaultArgs
    /\ pgLoc' = NoLocals
    /\ pgLog' = <<>>
    /\ pgErr' = ""
    /\ pgTouched' = FALSE
    /\ pgPrevFail' = PrevFailAfter
    /\ cpu_count' = 1
    /\ UNCHANGED pgFs
    /\ PgFrame

PgFail(err) ==
    /\ pgPc' = "failed"
    /\ pgErr' = err

\* Line 182: status[0] == '-', the submodule is not initialised.
\* Faulty variant: the whole status line is compared with '-'.
NotInitializedBad(status) == status = <<"-">>
NotInitialized(status) == status[1] = "-"

\* Lines 178-186: first `git submodule status`, exit(1) on '-'.
PgSubmoduleCheck ==
    /\ pgPc = "submodule_check"
    /\ \E rc \in {0, 1} :
          LET status == GitSubmoduleStatus(pgSrc.status, pgSrc.revision) IN
          IF CheckRaises(rc) THEN PgFail("git")
          ELSE IF NotInitialized(status) THEN PgFail("SystemExit")
          ELSE pgPc' = "compute_stamp" /\ pgErr' = pgErr
    /\ UNCHANGED <<cpu_count, pgSrc, pgFs, pgArgs, pgLoc, pgLog, pgTouched, pgPrevFail>>
    /\ PgFrame

\* Lines 188-206: second `git submodule status`, the source stamp, the
\* persisted stamp, is_outdated and the decision to rebuild.
PgComputeStamp ==
    /\ pgPc = "compute_stamp"
    /\ \E rc \in {0, 1} :
          LET stdout == GitSubmoduleStatus(pgSrc.status, pgSrc.revision)
              source_stamp == SourceStamp(stdout)
              build_stamp == pgFs.stamp
              is_outdated == IsOutdated(source_stamp, build_stamp)
          IN  IF CheckRaises(rc)
              THEN PgFail("git") /\ pgLoc' = pgLoc
              ELSE /\ pgLoc' = [source_stamp |-> source_stamp,
                                build_stamp |-> build_stamp,
                                is_outdated |-> is_outdated,
                                decided |-> TRUE]
                   /\ pgErr' = pgErr
                   /\ pgPc' = IF is_outdated \/ pgArgs.force_build
                              THEN "platform" ELSE "done"
    /\ UNCHANGED <<cpu_count, pgSrc, pgFs, pgArgs, pgLog, pgTouched, pgPrevFail>>
    /\ PgFrame

\* Lines 207-213: platform.system() selects the uuid library or raises.
PgPlatform ==
    /\ pgPc = "platform"
    /\ \E system \in Systems :
          IF system \in {"Darwin", "Linux"}
          THEN pgPc' = "wipe" /\ pgErr' = pgErr
          ELSE PgFail("NotImplementedError")
    /\ UNCHANGED <<cpu_count, pgSrc, pgFs, pgArgs, pgLoc, pgLog, pgTouched, pgPrevFail>>
    /\ PgFrame

\* Line 216: what shutil.rmtree(postgres_build) leaves of the output
\* directory. Faulty variant: only the build subdirectory is removed.
WipedBad(fs) == [fs EXCEPT !.build = FALSE, !.configured = FALSE]
Wiped(fs) == [dir |-> FALSE, build |-> FALSE, stamp |-> None,
              configured |-> FALSE]

\* Lines 215-216: shutil.rmtree(postgres_build) on a fresh build removes the
\* whole output directory, the stamp file included.
PgWipe ==
    /\ pgPc = "wipe"
    /\ IF pgArgs.fresh_build /\ pgFs.dir
       THEN /\ pgFs' = Wiped(pgFs)
            /\ pgTouched' = TRUE
       ELSE UNCHANGED <<pgFs, pgTouched>>
    /\ pgPc' = "mkdir"
    /\ UNCHANGED <<cpu_count, pgSrc, pgArgs, pgLoc, pgLog, pgErr, pgPrevFail>>
    /\ PgFrame

\* Lines 217-219: build_dir.mkdir(parents=True) when it does not exist.
PgMkdir ==
    /\ pgPc = "mkdir"
    /\ IF ~pgFs.build
       THEN /\ pgFs' = [pgFs EXCEPT !.dir = TRUE, !.build = TRUE]
            /\ pgTouched' = TRUE
       ELSE UNCHANGED <<pgFs, pgTouched>>
    /\ pgPc' = "configure"
    /\ UNCHANGED <<cpu_count, pgSrc, pgArgs, pgLoc, pgLog, pgErr, pgPrevFail>>
    /\ PgFrame

\* Where the orchestrator is after an external step returned rc: a kill ends
\* the process, check=True raises on a failure, otherwise the next statement.
\* Faulty variant: a failing step is run again.
AfterStepIgnore(step, rc, next) ==
    IF rc = -9 THEN "killed" ELSE next
AfterStepRetry(step, rc, next) ==
    IF rc = -9 THEN "killed" ELSE IF CheckRaises(rc) THEN step ELSE next
AfterStep(step, rc, next) ==
    IF rc = -9 THEN "killed" ELSE IF CheckRaises(rc) THEN "failed" ELSE next

\* Lines 229 and 236: max(os.cpu_count() - 1, 1), the value given with -j.
\* Faulty variant: the floor of one worker is missing.
MakeJobsBad(n) == n - 1
MakeJobs(n) == IF n - 1 > 1 THEN n - 1 ELSE 1

\* The steps that are given -j: `make` and the contrib `make`.
ParallelSteps == {"make", "contrib_make"}

\* One guarded subprocess.run(..., check=True, cwd=build_dir) of the rebuild.
RunStep(step, next) ==
    /\ pgPc = step
    /\ IF RunIf(step, pgArgs, pgLoc.is_outdated)
       THEN \E rc \in ReturnCodes :
               /\ pgLog' = Append(pgLog,
                      [step |-> step, rc |-> rc,
                       jobs |-> IF step \in ParallelSteps
                                THEN Some(MakeJobs(cpu_count)) ELSE None])
               /\ pgTouched' = TRUE
               /\ pgFs' = IF step = "configure" /\ rc = 0
                          THEN [pgFs EXCEPT !.configured = TRUE]
                          ELSE pgFs
               /\ pgPc' = AfterStep(step, rc, next)
               /\ pgErr' = IF pgPc' = "failed" THEN step ELSE pgErr
       ELSE /\ pgPc' = next
            /\ UNCHANGED <<pgLog, pgTouched, pgFs, pgErr>>
    /\ UNCHANGED <<cpu_count, pgSrc, pgArgs, pgLoc, pgPrevFail>>
    /\ PgFrame

PgConfigure == RunStep("configure", "make")
PgMake == RunStep("make", "contrib_make")
PgContribMake == RunStep("contrib_make", "install")
PgInstall == RunStep("install", "contrib_install")
PgContribInstall == RunStep("contrib_install", "stamp_open")

\* Line 249: open(postgres_build_stamp, 'w') creates or truncates the file.
PgStampOpen ==
    /\ pgPc = "stamp_open"
    /\ pgFs' = [pgFs EXCEPT !.stamp = Some(<<>>)]
    /\ pgPc' = "stamp_write"
    /\ pgTouched' = TRUE
    /\ UNCHANGED <<cpu_count, pgSrc, pgArgs, pgLoc, pgLog, pgErr, pgPrevFail>>
    /\ PgFrame

\* Line 250: f.write(source_stamp) and the close of the file.
PgStampWrite ==
    /\ pgPc = "stamp_write"
    /\ pgFs' = [pgFs EXCEPT !.stamp = Some(pgLoc.source_stamp)]
    /\ pgPc' = "done"
    /\ UNCHANGED <<cpu_count, pgSrc, pgArgs, pgLoc, pgLog, pgErr, pgTouched, pgPrevFail>>
    /\ PgFrame

\* The process is terminated between two steps of the orchestrator.
PgKill ==
    /\ pgPc \notin PgTerminal
    /\ pgPc' = "killed"
    /\ UNCHANGED <<cpu_count, pgSrc, pgFs, pgArgs, pgLoc, pgLog, pgErr, pgTouched,
                   pgPrevFail>>
    /\ PgFrame

NextPg ==
    \/ PgStart
    \/ PgChangeSource
    \/ PgSubmoduleCheck
    \/ PgComputeStamp
    \/ PgPlatform
    \/ PgWipe
    \/ PgMkdir
    \/ PgConfigure
    \/ PgMake
    \/ PgContribMake
    \/ PgInstall
    \/ PgContribInstall
    \/ PgStampOpen
    \/ PgStampWrite
    \/ PgKill

\* ==================================================== native extension builder
\* RUST_VERSION = '1.42.0', as LooseVersion's component_re splits it.
RUST_VERSION == <<"1", ".", "42", ".", "0">>

\* int() of the numeric components that occur.
DecimalValue ==
    ("0" :> 0) @@ ("1" :> 1) @@ ("2" :> 2) @@ ("9" :> 9) @@ ("41" :> 41)
    @@ ("42" :> 42)

\* distutils.version.LooseVersion.parse: the components without the dots,
\* the numeric ones converted to int.
RECURSIVE LooseVersion(_)
LooseVersion(s) ==
    IF s = <<>> THEN <<>>
    ELSE IF Head(s) = "." THEN LooseVersion(Tail(s))
    ELSE <<DecimalValue[Head(s)]>> \o LooseVersion(Tail(s))

\* Python's list comparison a < b, which LooseVersion.__lt__ uses.
RECURSIVE ListLess(_, _)
ListLess(a, b) ==
    IF b = <<>> THEN FALSE
    ELSE IF a = <<>> THEN TRUE
    ELSE IF Head(a) < Head(b) THEN TRUE
    ELSE IF Head(a) > Head(b) THEN FALSE
    ELSE ListLess(Tail(a), Tail(b))

RustcVersions ==
    { <<"1", ".", "9", ".", "0">>, <<"1", ".", "41", ".", "1">>,
      <<"1", ".", "42", ".", "0">>, <<"2", ".", "0", ".", "0">> }

\* What running `rustc -V` can give: no such program, a non-zero exit, or
\* "rustc <version> (...)".
RustcStates ==
    {[installed |-> FALSE, rc |-> 0, version |-> RUST_VERSION],
     [installed |-> TRUE, rc |-> 1, version |-> RUST_VERSION]}
    \cup {[installed |-> TRUE, rc |-> 0, version |-> v] : v \in RustcVersions}

\* _check_rust(): None when the toolchain is fit, else what it raises.
\* Faulty variant: the version comparison is left out.
CheckRustBad(r) ==
    IF ~r.installed
    THEN Some([type |-> "RuntimeError", msg |-> "please install rustc >=",
               version |-> RUST_VERSION, hint |-> TRUE])
    ELSE IF CheckRaises(r.rc)
    THEN Some([type |-> "CalledProcessError", msg |-> "rustc -V",
               version |-> <<>>, hint |-> FALSE])
    ELSE None
CheckRust(r) ==
    IF ~r.installed
    THEN Some([type |-> "RuntimeError", msg |-> "please install rustc >=",
               version |-> RUST_VERSION, hint |-> TRUE])
    ELSE IF CheckRaises(r.rc)
    THEN Some([type |-> "CalledProcessError", msg |-> "rustc -V",
               version |-> <<>>, hint |-> FALSE])
    ELSE IF ListLess(LooseVersion(r.version), LooseVersion(RUST_VERSION))
    THEN Some([type |-> "RuntimeError", msg |-> "please upgrade Rust to",
               version |-> RUST_VERSION, hint |-> FALSE])
    ELSE None

\* rust_extensions as declared below the class (empty without setuptools_rust).
RustExtensions == <<"edb._edgeql_rust", "edb._graphql_rewrite">>

\* build_ext.get_ext_fullpath(name): under the source tree when build_ext
\* is in place, under build_lib otherwise.
ExtFullPath(name, inplace) ==
    <<IF inplace THEN "ROOT_PATH" ELSE "build_lib", name>>

ExtPaths == {ExtFullPath(n, ip) : n \in {RustExtensions[i] : i \in 1..2},
                                  ip \in BOOLEAN}

\* str(pathlib.Path(self.build_temp) / 'rust' / 'extensions')
TempDir == <<"build_temp", "rust", "extensions">>
\* Where cargo puts its target directory when CARGO_TARGET_DIR is unset.
CrateTargetDir == <<"crate", "target">>

ExtTerminal == {"idle", "done", "failed", "killed"}

ExtInit ==
    /\ extPc = "idle"
    /\ extArgs = [inplace |-> FALSE, rust_extensions |-> <<>>]
    /\ rustc = [installed |-> TRUE, rc |-> 0, version |-> RUST_VERSION]
    /\ extEnv = None
    /\ extIdx = 1
    /\ copy_list = <<>>
    /\ extFs = [p \in ExtPaths |-> None]
    /\ extTemp = {}
    /\ extLog = <<>>
    /\ extErr = None
    /\ extRun = 0

\* build_ext.run does not touch the other two builders.
ExtFrame == UNCHANGED <<pgVars, grVars, keyVars, optVars>>

ExtLogged(step, rc) == extLog' = Append(extLog, [step |-> step, rc |-> rc])

\* A new `setup.py build_ext` process: line 485 tests rust_extensions.
ExtStart ==
    /\ extPc \in ExtTerminal
    /\ extRun < MaxExtRuns
    /\ \E ip \in BOOLEAN, exts \in {<<>>, RustExtensions}, r \in RustcStates,
          e \in {None, Some(<<"elsewhere">>)} :
          /\ exts = <<>> => (r = [installed |-> TRUE, rc |-> 0,
                                  version |-> RUST_VERSION] /\ e = None)
          /\ extArgs' = [inplace |-> ip, rust_extensions |-> exts]
          /\ rustc' = r
          /\ extEnv' = e
          /\ extPc' = IF exts # <<>> THEN "check_rust" ELSE "super_run"
    /\ extRun' = extRun + 1
    /\ extIdx' = 1
    /\ copy_list' = <<>>
    /\ extLog' = <<>>
    /\ extErr' = None
    /\ UNCHANGED <<extFs, extTemp>>
    /\ ExtFrame

\* Lines 486-491: _check_rust(), then the two get_finalized_command calls.
ExtCheckRust ==
    /\ extPc = "check_rust"
    /\ LET e == CheckRust(rustc) IN
          /\ extErr' = e
          /\ ExtLogged("check_rust", IF e = None THEN 0 ELSE 1)
          /\ extPc' = IF e # None THEN "failed"
                      ELSE IF ~extArgs.inplace THEN "plan"
                      ELSE "set_target_dir"
    /\ UNCHANGED <<extArgs, rustc, extEnv, extIdx, copy_list, extFs, extTemp,
                   extRun>>
    /\ ExtFrame

\* Lines 507-508: if target_path.exists(): target_path.unlink()
\* Faulty variant: the old artifact is left in place.
PlanUnlinkBad(fs, target_path) == fs
PlanUnlink(fs, target_path) == [fs EXCEPT ![target_path] = None]

\* Lines 492-510: one iteration of the placement loop.
ExtPlan ==
    /\ extPc = "plan"
    /\ LET ext == extArgs.rust_extensions[extIdx]
           dylib_path == ExtFullPath(ext, FALSE)
           target_path == ExtFullPath(ext, TRUE)
       IN  /\ copy_list' = Append(copy_list, <<dylib_path, target_path>>)
           /\ IF extFs[target_path] # None
              THEN /\ extFs' = PlanUnlink(extFs, target_path)
                   /\ ExtLogged("unlink", 0)
              ELSE UNCHANGED <<extFs, extLog>>
    /\ IF extIdx < Len(extArgs.rust_extensions)
       THEN extIdx' = extIdx + 1 /\ extPc' = "plan"
       ELSE extIdx' = 1 /\ extPc' = "set_target_dir"
    /\ UNCHANGED <<extArgs, rustc, extEnv, extTemp, extErr, extRun>>
    /\ ExtFrame

\* Lines 512-514: build_rust.debug and os.environ['CARGO_TARGET_DIR'].
ExtSetTargetDir ==
    /\ extPc = "set_target_dir"
    /\ extEnv' = Some(TempDir)
    /\ extPc' = "build_rust"
    /\ extIdx' = 1
    /\ UNCHANGED <<extArgs, rustc, copy_list, extFs, extTemp, extLog, extErr,
                   extRun>>
    /\ ExtFrame

\* shutil.copyfile(src, dst) opens dst for writing: an existing file keeps
\* its inode and is truncated, a missing one is created.
OpenForWrite(fs, dst, run) ==
    [ino |-> IF fs[dst] # None THEN fs[dst][1].ino ELSE run,
     data |-> 0, complete |-> FALSE]

\* Line 515: build_rust.run(), one extension per step: cargo writes its
\* intermediates under CARGO_TARGET_DIR and the finished library is copied
\* to where build_ext would have put it.
ExtBuildRust ==
    /\ extPc = "build_rust"
    /\ LET ext == extArgs.rust_extensions[extIdx]
           out == ExtFullPath(ext, extArgs.inplace)
       IN  \E rc \in ReturnCodes :
              /\ ExtLogged("build_rust", rc)
              /\ extTemp' = extTemp \cup
                    {IF extEnv # None THEN extEnv[1] ELSE CrateTargetDir}
              /\ IF rc = 0
                 THEN /\ extFs' = [extFs EXCEPT ![out] =
                            Some([OpenForWrite(extFs, out, extRun)
                                    EXCEPT !.data = extRun,
                                           !.complete = TRUE])]
                      /\ extErr' = extErr
                      /\ IF extIdx < Len(extArgs.rust_extensions)
                         THEN extIdx' = extIdx + 1 /\ extPc' = "build_rust"
                         ELSE /\ extIdx' = 1
                              /\ extPc' = IF copy_list # <<>>
                                          THEN "copy_open" ELSE "super_run"
                 ELSE /\ extPc' = AfterStep("build_rust", rc, "copy_open")
                      /\ extErr' = IF rc = -9 THEN extErr
                                   ELSE Some([type |-> "CompileError",
                                              msg |-> "cargo",
                                              version |-> <<>>,
                                              hint |-> FALSE])
                      /\ UNCHANGED <<extFs, extIdx>>
    /\ UNCHANGED <<extArgs, rustc, extEnv, copy_list, extRun>>
    /\ ExtFrame

IOError == Some([type |-> "OSError", msg |-> "copyfile", version |-> <<>>,
                 hint |-> FALSE])

\* Lines 517-518, first half of shutil.copyfile(src, dst): open both files.
ExtCopyOpen ==
    /\ extPc = "copy_open"
    /\ LET dst == copy_list[extIdx][2] IN
       \E ok \in BOOLEAN :
          IF ok
          THEN /\ extFs' = [extFs EXCEPT ![dst] =
                              Some(OpenForWrite(extFs, dst, extRun))]
               /\ extPc' = "copy_write"
               /\ extErr' = extErr
               /\ extLog' = extLog
          ELSE /\ extPc' = "failed"
               /\ extErr' = IOError
               /\ ExtLogged("copy", 1)
               /\ extFs' = extFs
    /\ UNCHANGED <<extArgs, rustc, extEnv, extIdx, copy_list, extTemp,
                   extRun>>
    /\ ExtFrame

\* Second half of shutil.copyfile(src, dst): copy the bytes and close.
ExtCopyWrite ==
    /\ extPc = "copy_write"
    /\ LET src == copy_list[extIdx][1]
           dst == copy_list[extIdx][2]
       IN  \E ok \in BOOLEAN :
              IF ok
              THEN /\ extFs' = [extFs EXCEPT ![dst] =
                                  Some([extFs[dst][1] EXCEPT
                                          !.data = extFs[src][1].data,
                                          !.complete = TRUE])]
                   /\ ExtLogged("copy", 0)
                   /\ extErr' = extErr
                   /\ IF extIdx < Len(copy_list)
                      THEN extIdx' = extIdx + 1 /\ extPc' = "copy_open"
                      ELSE extIdx' = 1 /\ extPc' = "super_run"
              ELSE /\ extPc' = "failed"
                   /\ extErr' = IOError
                   /\ ExtLogged("copy", 1)
                   /\ UNCHANGED <<extFs, extIdx>>
    /\ UNCHANGED <<extArgs, rustc, extEnv, copy_list, extTemp, extRun>>
    /\ ExtFrame

\* Line 520: super().run(), the build of the compiler-toolchain extensions.
ExtSuperRun ==
    /\ extPc = "super_run"
    /\ \E rc \in {0, 1} :
          /\ ExtLogged("super_run", rc)
          /\ extPc' = AfterStep("super_run", rc, "done")
          /\ extErr' = IF rc = 0 THEN extErr
                       ELSE Some([type |-> "CompileError", msg |-> "cc",
                                  version |-> <<>>, hint |-> FALSE])
    /\ UNCHANGED <<extArgs, rustc, extEnv, extIdx, copy_list, extFs, extTemp,
                   extRun>>
    /\ ExtFrame

\* The process is terminated between two steps of the builder.
ExtKill ==
    /\ extPc \notin ExtTerminal
    /\ extPc' = "killed"
    /\ UNCHANGED <<extArgs, rustc, extEnv, extIdx, copy_list, extFs, extTemp,
                   extLog, extErr, extRun>>
    /\ ExtFrame

NextExt ==
    \/ ExtStart
    \/ ExtCheckRust
    \/ ExtPlan
    \/ ExtSetTargetDir
    \/ ExtBuildRust
    \/ ExtCopyOpen
    \/ ExtCopyWrite
    \/ ExtSuperRun
    \/ ExtKill

\* ================================================== grammar compiler and cache
\* ROOT_PATH = pathlib.Path(__file__).parent.resolve(), as path components.
ROOT_PATH == <<"/", "edgedb">>

\* The build_lib argument: build.build_lib, or build_base / 'lib'.
BuildLib == <<"build", "lib">>

GrammarPackage == <<"edb", "edgeql", "parser", "grammar">>

\* The three imported grammar modules, in the order of the loop:
\* __name__ as its dotted components and __file__ as path components.
GrammarModule(n) ==
    [name |-> GrammarPackage \o <<n>>,
     file |-> ROOT_PATH \o GrammarPackage \o <<n \o ".py">>]
GrammarSpecs ==
    <<GrammarModule("single"), GrammarModule("block"),
      GrammarModule("sdldocument")>>

\* pathlib.Path(p).parent
Parent(p) == SubSeq(p, 1, Len(p) - 1)

\* subpath = pathlib.Path(str(spec_path)[len(str(ROOT_PATH)) + 1:])
SubPath(spec) ==
    LET spec_path == Parent(spec.file)
    IN  SubSeq(spec_path, Len(ROOT_PATH) + 1, Len(spec_path))

\* pickle_name = spec.__name__.rpartition('.')[2] + '.pickle'
\* Faulty variant: names the pickle after the package, not the module.
PickleNameBad(spec) == spec.name[Len(spec.name) - 1] \o ".pickle"
PickleName(spec) == Last(spec.name) \o ".pickle"

\* pickle_path = subpath / pickle_name
PicklePath(spec) == SubPath(spec) \o <<PickleName(spec)>>

\* cache = build_lib / pickle_path, and the copy target ROOT_PATH / pickle_path
CachePath(spec) == BuildLib \o PicklePath(spec)
MirrorPath(spec) == ROOT_PATH \o PicklePath(spec)

\* The pickle files there can be on disk, under either tree.
PickleNames == {"single.pickle", "block.pickle", "sdldocument.pickle",
                "grammar.pickle", "parser.pickle"}
GrPaths ==
    {root \o dir \o <<n>> : root \in {BuildLib, ROOT_PATH},
                            dir \in {<<>>, GrammarPackage},
                            n \in PickleNames}

GrTerminal == {"idle", "done", "failed"}

GrInit ==
    /\ grPc = "idle"
    /\ grInplace = FALSE
    /\ grIdx = 1
    /\ grFs = [p \in GrPaths |-> None]
    /\ grErr = ""
    /\ grRun = 0

\* _compile_parsers does not touch the other two builders.
GrFrame == UNCHANGED <<pgVars, extVars, keyVars, optVars>>

\* build.run calls _compile_parsers(build_lib); develop.run calls
\* _compile_parsers(build_base / 'lib', inplace=True).
GrStart ==
    /\ grPc \in GrTerminal
    /\ grRun < MaxGrammarRuns
    /\ \E inplace \in BOOLEAN : grInplace' = inplace
    /\ grRun' = grRun + 1
    /\ grIdx' = 1
    /\ grErr' = ""
    /\ grPc' = "compile"
    /\ UNCHANGED grFs
    /\ GrFrame

\* Where the loop goes after the body for spec grIdx.
GrAdvance ==
    IF grIdx < Len(GrammarSpecs)
    THEN grIdx' = grIdx + 1 /\ grPc' = "compile"
    ELSE grIdx' = grIdx /\ grPc' = "done"

\* Lines 119-125: the cache path, mkdir, and parsing.Spec(spec,
\* pickleFile=str(cache)), which writes the generated table or raises.
GrCompile ==
    /\ grPc = "compile"
    /\ LET spec == GrammarSpecs[grIdx]
           cache == CachePath(spec)
       IN  \E ok \in BOOLEAN :
              IF ok
              THEN /\ grFs' = [grFs EXCEPT ![cache] =
                                 Some([spec |-> spec.name, gen |-> grRun])]
                   /\ grErr' = grErr
                   /\ IF grInplace
                      THEN grPc' = "mirror" /\ grIdx' = grIdx
                      ELSE GrAdvance
              ELSE /\ grPc' = "failed"
                   /\ grErr' = "parsing.Spec"
                   /\ UNCHANGED <<grFs, grIdx>>
    /\ UNCHANGED <<grInplace, grRun>>
    /\ GrFrame

\* Lines 126-127: shutil.copy2(cache, ROOT_PATH / pickle_path).
GrMirror ==
    /\ grPc = "mirror"
    /\ LET spec == GrammarSpecs[grIdx]
           cache == CachePath(spec)
       IN  \E ok \in BOOLEAN :
              IF ok
              THEN /\ grFs' = [grFs EXCEPT ![MirrorPath(spec)] = grFs[cache]]
                   /\ grErr' = grErr
                   /\ GrAdvance
              ELSE /\ grPc' = "failed"
                   /\ grErr' = "shutil.copy2"
                   /\ UNCHANGED <<grFs, grIdx>>
    /\ UNCHANGED <<grInplace, grRun>>
    /\ GrFrame

NextGr ==
    \/ GrStart
    \/ GrCompile
    \/ GrMirror

\* ============================================================ build cache key
\* gen_build_cache_key.run: the digest of the grammar sources and the
\* revision of the engine submodule, printed as one line.

\* Digests hash_dirs can return for the grammar directory (bytes as 0..255).
ParserHashes == {<<0, 10>>, <<0, 171>>, <<171, 205>>}

HexChars == <<"0", "1", "2", "3", "4", "5", "6", "7",
              "8", "9", "a", "b", "c", "d", "e", "f">>

\* binascii.hexlify(...).decode(): two lower-case hex digits per byte.
RECURSIVE Hexlify(_)
Hexlify(bytes) ==
    IF bytes = <<>> THEN <<>>
    ELSE <<HexChars[(Head(bytes) \div 16) + 1],
           HexChars[(Head(bytes) % 16) + 1]>> \o Hexlify(Tail(bytes))

\* postgres_revision: stdout without its status column, up to the first
\* blank.
PostgresRevisionBad(stdout) == PartitionHead(stdout, " ")
PostgresRevision(stdout) == PartitionHead(Tail(stdout), " ")

\* The printed line.
CacheKey(parser_hash, stdout) ==
    Hexlify(parser_hash) \o <<"-">> \o PostgresRevision(stdout)

KeyInit == keyRuns = <<>>

KeyFrame == UNCHANGED <<pgVars, extVars, grVars, optVars>>

\* One run of the command against some state of the sources.
GenBuildCacheKey ==
    /\ Len(keyRuns) < MaxKeyRuns
    /\ \E parser_hash \in ParserHashes, st \in StatusChars, rev \in Revisions,
          rc \in {0, 1} :
          keyRuns' = Append(keyRuns,
              [parser_hash |-> parser_hash, status |-> st, revision |-> rev,
               printed |-> IF CheckRaises(rc) THEN None
                           ELSE Some(CacheKey(parser_hash,
                                              GitSubmoduleStatus(st, rev)))])
    /\ KeyFrame

NextKey == GenBuildCacheKey

\* ================================================ build_ext command options
\* build_ext.initialize_options and build_ext.finalize_options on one
\* command object.

DebugDefine == <<"PG_DEBUG", "CYTHON_TRACE", "CYTHON_TRACE_NOGIL">>

\* Values the command line or setup.cfg can give the options.
UserValues ==
    [cython_annotate |-> {Some(TRUE)},
     cython_directives |-> {Some(<<"boundscheck", "False">>),
                            Some(<<"embedsignature", "True">>)},
     define |-> {Some([form |-> "str", names |-> <<"NDEBUG">>])},
     debug |-> {TRUE}]

\* The object before Command.__init__ has called initialize_options: no
\* option attribute exists and `_initialized` is absent (read as False).
NewSelf ==
    [_initialized |-> FALSE, cython_always |-> FALSE,
     cython_annotate |-> None, cython_directives |-> None,
     define |-> None, debug |-> FALSE]

\* Lines 412-431. super().initialize_options() resets define and debug; the
\* branch on EDGEDB_DEBUG assigns the rest.
InitializeOptions(self, debug_env) ==
    IF self._initialized THEN self
    ELSE IF debug_env
    THEN [self EXCEPT !.cython_always = TRUE,
                      !.cython_annotate = Some(TRUE),
                      !.cython_directives = Some(<<"linetrace", "True">>),
                      !.define = Some([form |-> "str", names |-> DebugDefine]),
                      !.debug = TRUE]
    ELSE [self EXCEPT !.cython_always = FALSE,
                      !.cython_annotate = None,
                      !.cython_directives = None,
                      !.define = None,
                      !.debug = FALSE]

\* str.lower() on the directive values in use.
Lower(v) == CASE v = "True" -> "true" [] v = "False" -> "false" [] OTHER -> v

\* Lines 464-471: a value 'false' is replaced by False at line 467, and line
\* 468 then calls .lower() on the bool.
DirectivesRaise(cython_directives) ==
    cython_directives # None /\ Lower(cython_directives[1][2]) = "false"

\* Lines 433-482: what the call leaves of the object, whether it applied
\* cythonize to distribution.ext_modules, and what it raised. cython is the
\* state of the Cython installation. super().finalize_options() splits the
\* define string into a list of (name, '1') pairs, and cannot split a list.
FinalizeOptions(self, cython) ==
    IF self._initialized
    THEN [self |-> self, cythonize |-> 0, raised |-> ""]
    ELSE IF cython # "ok"
    THEN [self |-> self, cythonize |-> 0, raised |-> "RuntimeError"]
    ELSE IF DirectivesRaise(self.cython_directives)
    THEN [self |-> self, cythonize |-> 0, raised |-> "AttributeError"]
    ELSE IF self.define # None /\ self.define[1].form = "list"
    THEN [self |-> self, cythonize |-> 1, raised |-> "AttributeError"]
    ELSE [self |-> IF self.define = None THEN self
                   ELSE [self EXCEPT !.define =
                            Some([form |-> "list",
                                  names |-> self.define[1].names])],
          cythonize |-> 1, raised |-> ""]

NoCalls == [initialize |-> 0, finalize |-> 0, cythonize |-> 0]

OptInit ==
    /\ optEnv = FALSE
    /\ optSelf = NewSelf
    /\ optCalls = NoCalls
    /\ optErr = ""

OptFrame == UNCHANGED <<pgVars, extVars, grVars, keyVars>>

\* A setup.py process creates the command object: Command.__init__ makes
\* the first call of initialize_options.
OptCreate ==
    /\ \E debug_env \in BOOLEAN :
          /\ optEnv' = debug_env
          /\ optSelf' = InitializeOptions(NewSelf, debug_env)
    /\ optCalls' = [NoCalls EXCEPT !.initialize = 1]
    /\ optErr' = ""
    /\ OptFrame

\* The distribution sets an option from the command line or setup.cfg.
OptSet ==
    /\ optCalls.initialize >= 1
    /\ \E opt \in DOMAIN UserValues : \E v \in UserValues[opt] :
          optSelf' = [optSelf EXCEPT ![opt] = v]
    /\ UNCHANGED <<optEnv, optCalls, optErr>>
    /\ OptFrame

\* A further call of initialize_options on the object (as
\* reinitialize_command makes).
OptInitialize ==
    /\ optCalls.initialize \in 1..(MaxOptCalls - 1)
    /\ optSelf' = InitializeOptions(optSelf, optEnv)
    /\ optCalls' = [optCalls EXCEPT !.initialize = @ + 1]
    /\ optErr' = ""
    /\ UNCHANGED optEnv
    /\ OptFrame

\* A call of finalize_options on the object.
OptFinalize ==
    /\ optCalls.initialize >= 1
    /\ optCalls.finalize < MaxOptCalls
    /\ \E cython \in {"ok", "missing", "unfit"} :
          LET r == FinalizeOptions(optSelf, cython) IN
          /\ optSelf' = r.self
          /\ optCalls' = [optCalls EXCEPT !.finalize = @ + 1,
                                          !.cythonize = @ + r.cythonize]
          /\ optErr' = r.raised
    /\ UNCHANGED optEnv
    /\ OptFrame

NextOpt ==
    \/ OptCreate
    \/ OptSet
    \/ OptInitialize
    \/ OptFinalize

\* ============================================================ specifications
vars == <<pgVars, extVars, grVars, keyVars, optVars>>

Init == PgInit /\ ExtInit /\ GrInit /\ KeyInit /\ OptInit

SpecPg == Init /\ [][NextPg]_vars
SpecExt == Init /\ [][NextExt]_vars
SpecGr == Init /\ [][NextGr]_vars
SpecKey == Init /\ [][NextKey]_vars
SpecOpt == Init /\ [][NextOpt]_vars

\* ------------------------------------------------ properties, embedded engine
LogSteps(log) == [i \in 1..Len(log) |-> log[i].step]
AllSucceeded(log) == \A i \in 1..Len(log) : log[i].rc = 0

\* The stamp the source state stands for: status character + revision id.
ExpectedStamp == <<pgSrc.status>> \o pgSrc.revision

\* C1: the stamp file is written (created, truncated or filled) only after
\* every rebuild step selected for the invocation has returned 0, what is
\* finally written is the computed source stamp, and an invocation in which
\* a step failed never writes the stamp file.
C1_StampOnlyAfterSuccess ==
    /\ [][(pgFs'.stamp # pgFs.stamp /\ pgFs'.stamp # None)
            => /\ LogSteps(pgLog) = SelectedSteps(pgArgs, pgLoc.is_outdated)
               /\ AllSucceeded(pgLog)
               /\ (pgPc' = "done" => pgFs'.stamp = Some(ExpectedStamp))]_vars
    /\ [](pgPc = "failed" /\ pgLoc.decided
            => pgFs.stamp \in {pgLoc.build_stamp, None})

C1_Witness ==
    /\ pgPc = "done"
    /\ pgLog # <<>>
    /\ pgFs.stamp = Some(pgLoc.source_stamp)
    /\ pgLoc.build_stamp # Some(pgLoc.source_stamp)

\* C2 (as claimed): when the previous invocation failed or was killed
\* part-way and the source state is the same, the invocation never decides
\* to skip the rebuild.
C2_RetryAfterPartialBuild ==
    [][(pgPc = "compute_stamp" /\ pgPrevFail = Some(pgSrc))
        => pgPc' # "done"]_vars

\* C3: is_outdated is true exactly when no stamp file exists or its content
\* differs from status character + revision id; when it is false and the
\* rebuild is not forced, the invocation ends having run no step, modified
\* nothing and left the stamp file as it was.
C3_StalenessBinary ==
    pgLoc.decided =>
        /\ pgLoc.is_outdated <=>
              (pgLoc.build_stamp = None
               \/ pgLoc.build_stamp[1] # ExpectedStamp)
        /\ (~pgLoc.is_outdated /\ ~pgArgs.force_build) =>
              /\ pgPc = "done"
              /\ pgLog = <<>>
              /\ ~pgTouched
              /\ pgFs.stamp = pgLoc.build_stamp

C3_Witness ==
    /\ pgPc = "done"
    /\ pgLoc.decided
    /\ ~pgLoc.is_outdated
    /\ ~pgArgs.force_build
    /\ pgFs.stamp = Some(ExpectedStamp)

\* C4: when the computed stamp differs from the persisted one (or none is
\* persisted), an invocation that gets past the rebuild steps has run all
\* five of them, whatever run_configure and build_contrib say, and on
\* success the persisted stamp is the newly computed one.
C4_OutdatedFullRebuild ==
    (pgLoc.decided /\ pgLoc.is_outdated) =>
        /\ IsPrefix(LogSteps(pgLog), StepOrder)
        /\ pgPc \in {"stamp_open", "stamp_write", "done"} =>
              LogSteps(pgLog) = StepOrder /\ AllSucceeded(pgLog)
        /\ pgPc = "done" => pgFs.stamp = Some(ExpectedStamp)

C4_Witness ==
    /\ pgPc = "done"
    /\ pgLoc.is_outdated
    /\ pgLoc.build_stamp # None
    /\ ~pgArgs.run_configure /\ ~pgArgs.build_contrib /\ ~pgArgs.fresh_build
    /\ pgFs.stamp = Some(ExpectedStamp)

\* C5: the external steps run so far are a prefix of the selected step
\* list, none ran twice, every step before the last returned 0 (nothing
\* runs after a failure), and a failed step is the one reported.
C5_FailFast ==
    /\ IsPrefix(LogSteps(pgLog), SelectedSteps(pgArgs, pgLoc.is_outdated))
    /\ NoDuplicates(LogSteps(pgLog))
    /\ \A i \in 1..(Len(pgLog) - 1) : pgLog[i].rc = 0
    /\ (pgLog # <<>> /\ Last(pgLog).rc = 1)
          => pgPc = "failed" /\ pgErr = Last(pgLog).step
    /\ (pgPc = "failed" /\ pgLog # <<>>)
          => Last(pgLog).rc = 1 /\ pgErr = Last(pgLog).step

C5_Witness ==
    /\ pgPc = "failed"
    /\ Len(pgLog) = 2
    /\ pgLog[2].rc = 1
    /\ Len(SelectedSteps(pgArgs, pgLoc.is_outdated)) > 2

\* The contents a completely written stamp file can have.
CompleteStamps == {<<st>> \o rev : st \in StatusChars, rev \in Revisions}

\* C12: the stamp file is replaced in one step: whoever reads it while an
\* invocation writes it finds no stamp, the old stamp or the new one, never
\* an empty or cut-off one.
C12_StampWriteAtomic ==
    pgFs.stamp # None => pgFs.stamp[1] \in CompleteStamps

\* C14: while the submodule is not initialised (status '-') an invocation
\* gets no further than the first status query: it ends with exit(1) (or
\* with the error of the query itself), runs no rebuild step, and leaves
\* the build output directory and the stamp file as they were.
C14_UninitialisedAborts ==
    /\ [](pgSrc.status = "-" =>
            /\ pgPc \in {"idle", "submodule_check", "failed", "killed"}
            /\ pgLog = <<>>
            /\ ~pgTouched
            /\ pgPc = "failed" => pgErr \in {"SystemExit", "git"})
    /\ [][pgSrc.status = "-" => pgFs' = pgFs]_vars

\* A forced fresh build is asked for over an existing build and exits.
C14_Witness ==
    /\ pgSrc.status = "-"
    /\ pgPc = "failed"
    /\ pgErr = "SystemExit"
    /\ pgArgs.force_build
    /\ pgArgs.fresh_build
    /\ pgFs.build
    /\ pgFs.stamp # None

\* C15: `make` and the contrib `make` are given -j max(n - 1, 1) for the n
\* processors of the host: at least one worker, n - 1 workers from two
\* processors on; no other step is given -j.
C15_WorkerCount ==
    \A i \in DOMAIN pgLog :
        IF pgLog[i].step \in ParallelSteps
        THEN /\ pgLog[i].jobs # None
             /\ pgLog[i].jobs[1] >= 1
             /\ cpu_count >= 2 => pgLog[i].jobs[1] = cpu_count - 1
             /\ cpu_count = 1 => pgLog[i].jobs[1] = 1
        ELSE pgLog[i].jobs = None

\* Both parallel steps ran on a host with a single processor.
C15_Witness ==
    /\ cpu_count = 1
    /\ \E i, j \in DOMAIN pgLog :
          /\ pgLog[i].step = "make"
          /\ pgLog[j].step = "contrib_make"
          /\ pgLog[i].jobs = Some(1)
          /\ pgLog[j].jobs = Some(1)

StepIndex(step) == CHOOSE k \in DOMAIN StepOrder : StepOrder[k] = step
RanOk(step) == \E i \in DOMAIN pgLog : pgLog[i].step = step /\ pgLog[i].rc = 0
Ran(step) == \E i \in DOMAIN pgLog : pgLog[i].step = step
PastSteps == {"stamp_open", "stamp_write", "done"}

\* C16: the steps of one rebuild run in the order configure, make, contrib
\* make, make install, contrib install, and the stamp is written after all
\* of them; the flags and is_outdated stay what they were when the rebuild
\* began, so contrib install has run exactly when contrib make has run and
\* the invocation got past make install; an install step has run only after
\* its make step returned 0.
C16_StepOrder ==
    /\ [](/\ \A i, j \in DOMAIN pgLog :
                i < j => StepIndex(pgLog[i].step) < StepIndex(pgLog[j].step)
          /\ Ran("install") => RanOk("make")
          /\ Ran("contrib_install") => RanOk("contrib_make") /\ RanOk("install")
          /\ (pgLog # <<>> /\ pgPc \in PastSteps) =>
                /\ AllSucceeded(pgLog)
                /\ Ran("make") /\ Ran("install")
                /\ Ran("contrib_install") <=> Ran("contrib_make")
          /\ pgPc \in {"configure", "make", "contrib_make", "install",
                        "contrib_install", "stamp_open"} =>
                pgFs.stamp \in {None, pgLoc.build_stamp})
    /\ [][(pgPc \in {"configure", "make", "contrib_make", "install",
                      "contrib_install"}) =>
            /\ pgArgs' = pgArgs
            /\ pgLoc' = pgLoc
            /\ pgFs'.stamp = pgFs.stamp]_vars

\* A finished rebuild that ran neither configure nor a contrib step.
C16_Witness ==
    /\ pgPc = "done"
    /\ LogSteps(pgLog) = <<"make", "install">>
    /\ pgFs.stamp = Some(ExpectedStamp)

Rebuilding ==
    \/ pgPc \in {"wipe", "mkdir", "configure", "make", "contrib_make",
                 "install", "contrib_install", "stamp_open", "stamp_write"}
    \/ pgPc = "done" /\ pgLog # <<>>
ConfigureDue == pgArgs.run_configure \/ pgArgs.fresh_build \/ pgLoc.is_outdated
ContribDue == pgArgs.build_contrib \/ pgArgs.fresh_build \/ pgLoc.is_outdated
Finished == pgLog # <<>> /\ pgPc \in PastSteps

\* C17: a rebuild runs only when forced or stale. In a rebuild, whatever the
\* five inputs are: once past its place in the order, configure has run
\* exactly when run_configure, fresh_build or staleness holds, and each
\* contrib step exactly when build_contrib, fresh_build or staleness holds;
\* a fresh build has removed the whole output directory, the old stamp
\* included, before the first step, so until the stamp is written anew none
\* exists and the directory is configured only by this invocation; a
\* build that is not fresh removes nothing.
C17_FlagTable ==
    /\ [](Rebuilding =>
            /\ pgArgs.force_build \/ pgLoc.is_outdated
            /\ pgPc \in {"make", "contrib_make", "install", "contrib_install"}
                  \/ Finished => (Ran("configure") <=> ConfigureDue)
            /\ pgPc \in {"install", "contrib_install"} \/ Finished =>
                  (Ran("contrib_make") <=> ContribDue)
            /\ Finished => (Ran("contrib_install") <=> ContribDue)
            /\ (pgArgs.fresh_build /\ pgPc = "mkdir") =>
                  pgFs = Wiped(pgFs) /\ pgLog = <<>>
            /\ (pgArgs.fresh_build /\ pgPc \in {"configure", "make",
                      "contrib_make", "install", "contrib_install",
                      "stamp_open"}) =>
                  /\ pgFs.stamp = None
                  /\ pgFs.configured <=> RanOk("configure"))
    /\ [][(pgPc = "wipe" /\ ~pgArgs.fresh_build) => pgFs' = pgFs]_vars

\* A forced fresh build over a current build, with configure and contrib
\* switched off, ran all five steps.
C17_Witness ==
    /\ pgPc = "done"
    /\ pgArgs.fresh_build
    /\ ~pgArgs.run_configure
    /\ ~pgArgs.build_contrib
    /\ ~pgLoc.is_outdated
    /\ pgLoc.build_stamp # None
    /\ LogSteps(pgLog) = StepOrder

\* C18: whatever invocations, flags, failures and kills came before, `make`
\* is started only in a build directory in which `configure` has returned 0
\* since the output directory was last created or wiped.
C18_MakeOnlyConfigured ==
    /\ [](Ran("make") => pgFs.configured)
    /\ [][(pgPc = "make" /\ pgLog' # pgLog) => pgFs.configured]_vars

\* `make` runs without `configure` in the invocation that follows one which
\* stopped part-way.
C18_Witness ==
    /\ Ran("make")
    /\ ~Ran("configure")
    /\ pgPrevFail # None
    /\ pgFs.configured

\* ------------------------------------------- properties, extension builder
ExtSteps(log) == {log[i].step : i \in 1..Len(log)}
TargetPaths == {ExtFullPath(RustExtensions[i], TRUE) : i \in 1..2}
RustRun == extPc # "idle" /\ extArgs.rust_extensions # <<>>

\* C6: in a build that is not in place every in-place path is empty while
\* the toolchain build runs and until that path's copy starts; once the
\* toolchain build has started, whatever file is at an in-place path has
\* an inode created by this invocation (the old inode is gone) and was put
\* there after every extension's toolchain build returned 0.
C6_UnlinkBeforeBuild ==
    (RustRun /\ ~extArgs.inplace) =>
        /\ extPc \in {"set_target_dir", "build_rust"} =>
              \A t \in TargetPaths : extFs[t] = None
        /\ extPc = "copy_open" =>
              \A i \in extIdx..Len(copy_list) : extFs[copy_list[i][2]] = None
        /\ "build_rust" \in ExtSteps(extLog) =>
              \A t \in TargetPaths :
                 extFs[t] # None =>
                    /\ extFs[t][1].ino = extRun
                    /\ Len(SelectSeq(extLog, LAMBDA e :
                          e.step = "build_rust" /\ e.rc = 0))
                       = Len(extArgs.rust_extensions)

C6_Witness ==
    /\ extPc = "done"
    /\ ~extArgs.inplace
    /\ "unlink" \in ExtSteps(extLog)
    /\ \A t \in TargetPaths :
          extFs[t] # None /\ extFs[t][1].ino = extRun /\ extFs[t][1].complete

\* C7 (as claimed): toolchain intermediates are only ever under
\* build_temp/rust/extensions, and no in-place extension path ever holds a
\* partially written file.
C7_NoPartialArtifact ==
    /\ extTemp \subseteq {TempDir}
    /\ \A t \in TargetPaths : extFs[t] # None => extFs[t][1].complete

\* Versions of RustcVersions below 1.42.0.
TooOld == { <<"1", ".", "9", ".", "0">>, <<"1", ".", "41", ".", "1">> }
RustUnfit ==
    ~rustc.installed \/ (rustc.rc = 0 /\ rustc.version \in TooOld)

\* C8: with rust extensions declared the first builder step is the
\* toolchain check; with rustc missing or older than 1.42.0 the builder
\* gets no further than that check, the error it raises names 1.42.0, and
\* nothing is unlinked, built or copied.
C8_Preflight ==
    RustRun =>
        /\ extLog # <<>> => extLog[1].step = "check_rust"
        /\ RustUnfit =>
              /\ extPc \in {"check_rust", "failed", "killed"}
              /\ ExtSteps(extLog) \subseteq {"check_rust"}
              /\ copy_list = <<>>
              /\ extPc = "failed" =>
                    /\ extErr # None
                    /\ extErr[1].type = "RuntimeError"
                    /\ extErr[1].version = <<"1", ".", "42", ".", "0">>

C8_Witness ==
    /\ extPc = "failed"
    /\ ~extArgs.inplace
    /\ rustc.installed /\ rustc.version = <<"1", ".", "9", ".", "0">>
    /\ \A t \in TargetPaths : extFs[t] # None

\* C13: a failing step of the extension builder is the last thing the
\* invocation does: only the last logged step can have failed, after it the
\* invocation is over, no artifact is relocated after a failed preflight or
\* toolchain build, the compiler-toolchain extensions are not built after
\* any failed earlier step, and nothing on disk changes any more.
C13_BuilderFailFast ==
    /\ [](/\ \A i \in 1..(Len(extLog) - 1) : extLog[i].rc = 0
          /\ (extLog # <<>> /\ Last(extLog).rc # 0) =>
                /\ extPc \in {"failed", "killed"}
                /\ Last(extLog).step \in {"check_rust", "build_rust"} =>
                      "copy" \notin ExtSteps(extLog)
                /\ Last(extLog).step # "super_run" =>
                      "super_run" \notin ExtSteps(extLog)
          /\ extPc = "failed" => extLog # <<>> /\ Last(extLog).rc # 0)
    /\ [][extPc = "failed" =>
            /\ extFs' = extFs
            /\ extTemp' = extTemp
            /\ extLog' \in {extLog, <<>>}]_vars

\* The copy of the first artifact failed and the second one stays where the
\* toolchain put it.
C13_Witness ==
    /\ extPc = "failed"
    /\ Last(extLog).step = "copy"
    /\ Len(copy_list) = 2
    /\ extIdx = 1
    /\ extFs[copy_list[2][1]] # None
    /\ extFs[copy_list[2][2]] = None

ToolchainFailed ==
    /\ extLog # <<>>
    /\ Last(extLog).step = "build_rust"
    /\ Last(extLog).rc # 0

\* C19: when the toolchain build of a build that is not in place fails, no
\* in-place path of a declared extension holds an artifact afterwards: the
\* old one was unlinked by the placement loop and no new one was copied.
C19_FailedBuildLeavesNothing ==
    (ToolchainFailed /\ ~extArgs.inplace) =>
        /\ extPc \in {"failed", "killed"}
        /\ \A i \in DOMAIN extArgs.rust_extensions :
              extFs[ExtFullPath(extArgs.rust_extensions[i], TRUE)] = None

\* The failed build had found an artifact at an in-place path and removed it.
C19_Witness ==
    /\ ToolchainFailed
    /\ ~extArgs.inplace
    /\ extPc = "failed"
    /\ "unlink" \in ExtSteps(extLog)
    /\ \A t \in TargetPaths : extFs[t] = None

\* ------------------------------------------------ properties, grammar cache
ExpectedPickles ==
    { <<"edb", "edgeql", "parser", "grammar", "single.pickle">>,
      <<"edb", "edgeql", "parser", "grammar", "block.pickle">>,
      <<"edb", "edgeql", "parser", "grammar", "sdldocument.pickle">> }
UnderBuildLib == {p \in GrPaths : IsPrefix(BuildLib, p)}
UnderRoot == {p \in GrPaths : IsPrefix(ROOT_PATH, p)}

\* C9: after a successful grammar build exactly three cache files exist
\* under build_lib, at <package path>/<module>.pickle, each generated by
\* this build for its own module; with inplace each also exists under the
\* source tree with the same content, and without inplace no file under the
\* source tree is changed by the step.
C9_ThreeArtifacts ==
    /\ [](grPc = "done" =>
            /\ {p \in UnderBuildLib : grFs[p] # None}
                 = {BuildLib \o q : q \in ExpectedPickles}
            /\ Cardinality({p \in UnderBuildLib : grFs[p] # None}) = 3
            /\ \A i \in 1..3 :
                  grFs[CachePath(GrammarSpecs[i])]
                    = Some([spec |-> GrammarSpecs[i].name, gen |-> grRun])
            /\ grInplace =>
                  \A q \in ExpectedPickles :
                     /\ grFs[ROOT_PATH \o q] # None
                     /\ grFs[ROOT_PATH \o q] = grFs[BuildLib \o q])
    /\ [][~grInplace' => \A p \in UnderRoot : grFs'[p] = grFs[p]]_vars

C9_Witness ==
    /\ grPc = "done"
    /\ grInplace
    /\ grRun = 2
    /\ \A i \in 1..3 : grFs[MirrorPath(GrammarSpecs[i])]
                         = Some([spec |-> GrammarSpecs[i].name, gen |-> 2])

\* Specs whose cache file was generated by the running invocation.
FreshCache ==
    {i \in 1..3 : /\ grFs[CachePath(GrammarSpecs[i])] # None
                  /\ grFs[CachePath(GrammarSpecs[i])][1].gen = grRun}

\* C10 (as claimed): after a compilation error no later spec has been
\* compiled, and the cache tree does not hold freshly generated artifacts
\* for only some of the grammars.
C10_NoPartialCache ==
    (grPc = "failed" /\ grErr = "parsing.Spec") =>
        /\ \A i \in FreshCache : i <= grIdx
        /\ FreshCache \in {{}, 1..3}

\* ---------------------------------------------------- properties, cache key
Printed == {i \in DOMAIN keyRuns : keyRuns[i].printed # None}
KeyOf(i) == keyRuns[i].printed[1]

\* C11: the printed key is the hex digest of the grammar fingerprint, a
\* dash, and the revision id; two runs print different keys exactly when
\* their fingerprints or their revision ids differ, so a change of the
\* status character alone leaves the key as it was.
C11_KeyDiscriminates ==
    /\ \A i \in Printed :
          LET k == KeyOf(i)
              n == 2 * Len(keyRuns[i].parser_hash)
          IN  /\ Len(k) = n + 1 + Len(keyRuns[i].revision)
              /\ \A c \in 1..n : \E d \in DOMAIN HexChars : k[c] = HexChars[d]
              /\ k[n + 1] = "-"
              /\ SubSeq(k, n + 2, Len(k)) = keyRuns[i].revision
    /\ \A i, j \in Printed :
          (KeyOf(i) # KeyOf(j)) <=>
              (\/ keyRuns[i].parser_hash # keyRuns[j].parser_hash
               \/ keyRuns[i].revision # keyRuns[j].revision)

\* Two runs that differ in the status character only, and print one key.
C11_Witness ==
    \E i, j \in Printed :
        /\ keyRuns[i].status # keyRuns[j].status
        /\ keyRuns[i].parser_hash = keyRuns[j].parser_hash
        /\ keyRuns[i].revision = keyRuns[j].revision
        /\ KeyOf(i) = KeyOf(j)

\* -------------------------------------------- properties, command options
OptionNames ==
    {"cython_always", "cython_annotate", "cython_directives", "define",
     "debug"}
OptionsOf(self) == [o \in OptionNames |-> self[o]]

\* C20: a call of initialize_options or finalize_options on an object on
\* which that method has already been called changes no option value and
\* does not apply cythonize again.
C20_SecondCallKeepsOptions ==
    [][(\/ optCalls.initialize >= 1
           /\ optCalls'.initialize = optCalls.initialize + 1
        \/ optCalls.finalize >= 1
           /\ optCalls'.finalize = optCalls.finalize + 1) =>
          /\ OptionsOf(optSelf') = OptionsOf(optSelf)
          /\ optCalls'.cythonize = optCalls.cythonize]_vars

====
